---- MODULE Spec2Model ----
(***************************************************************************)
(* Flush policies of the DWRF writer (velox/dwio/dwrf/writer/FlushPolicy.h) *)
(*                                                                         *)
(* One policy object is constructed (Init) and then driven by a writer     *)
(* that appends to the current stripe, asks the policy shouldFlush and     *)
(* shouldFlushDictionary, flushes the stripe and finally closes.           *)
(*                                                                         *)
(* The header holds the bodies of DefaultFlushPolicy::shouldFlush,         *)
(* RowThresholdFlushPolicy, LambdaFlushPolicy, every onClose and the       *)
(* constant shouldFlushDictionary overrides.  The bodies that live in      *)
(* FlushPolicy.cpp (DefaultFlushPolicy's constructor, both of its          *)
(* shouldFlushDictionary forms, getDictionaryAssessmentIncrement, and      *)
(* RowsPerStripeFlushPolicy's constructor and shouldFlush) are written     *)
(* from the design document, within what the declarations allow:           *)
(* RowsPerStripeFlushPolicy declares a single const member, so the plan    *)
(* position is the stripe index of the progress snapshot, which the        *)
(* writer advances when it flushes a stripe.                               *)
(***************************************************************************)
EXTENDS Integers, Sequences, FiniteSets, TLC

\* ------------------------------------------------------------------ bounds
SmallThreshold == 3     \* a stripe-size threshold T below the number of checkpoints
MaxThreshold == 4       \* the other thresholds T range over 4..MaxThreshold
MaxDictThreshold == 1   \* dictionary thresholds D range over 1..MaxDictThreshold
MaxUsage == 2           \* dictionary memory usage ranges over 0..MaxUsage
Slack == 1              \* a stripe grows up to T + Slack (or MaxThreshold + Slack)
MaxRows == 3            \* a stripe holds up to MaxRows rows (one row under a DefaultFlushPolicy)
MaxPlanLen == 2         \* row-sequence plans have 1..MaxPlanLen entries
MaxPlanEntry == 2       \* each plan entry ranges over 0..MaxPlanEntry
MaxRowThreshold == 3    \* row thresholds R range over 0..MaxRowThreshold
MaxStripes == 2         \* the writer flushes at most MaxStripes stripes

\* ------------------------------------------------------------------ types
SKIP == "SKIP"
EVALUATE_DICTIONARY == "EVALUATE_DICTIONARY"
FLUSH_DICTIONARY == "FLUSH_DICTIONARY"
ABANDON_DICTIONARY == "ABANDON_DICTIONARY"

FlushDecision == {SKIP, EVALUATE_DICTIONARY, FLUSH_DICTIONARY, ABANDON_DICTIONARY}

\* The four concrete classes deriving from DWRFFlushPolicy.
PolicyKinds == {"DefaultFlushPolicy", "RowsPerStripeFlushPolicy",
                "RowThresholdFlushPolicy", "LambdaFlushPolicy"}

\* dwio::common::StripeProgress as the policies read it.
StripeProgress(index, rows, size) ==
    [stripeIndex |-> index, stripeRowCount |-> rows, stripeSizeEstimate |-> size]

\* What one invocation of the stored std::function<bool()> can do.
LambdaOutcomes == {"true", "false", "throw"}

VARIABLES
    kind,                            \* dynamic type of the policy object
    stripeSizeThreshold_,            \* DefaultFlushPolicy, const
    dictionarySizeThreshold_,        \* DefaultFlushPolicy, const
    dictionaryAssessmentThreshold_,  \* DefaultFlushPolicy, the assessment cursor
    rowsPerStripe_,                  \* RowsPerStripeFlushPolicy, const
    rowCountThreshold_,              \* RowThresholdFlushPolicy, const
    stripeProgress,                  \* the writer's progress in the current stripe
    dictionaryMemoryUsage,           \* WriterContext: current dictionary memory usage
    closed,                          \* WriterBase::close() has run
    call,                            \* the last operation: arguments and outcome
    flushSeen,                       \* shouldFlush has returned true in this stripe
    fired                            \* decisions shouldFlushDictionary returned in this stripe

policyVars == <<kind, stripeSizeThreshold_, dictionarySizeThreshold_,
                dictionaryAssessmentThreshold_, rowsPerStripe_, rowCountThreshold_>>
writerVars == <<stripeProgress, dictionaryMemoryUsage, closed>>
historyVars == <<flushSeen, fired>>
vars == <<policyVars, writerVars, call, historyVars>>

\* ------------------------------------------------- DefaultFlushPolicy

\* Variants of DefaultFlushPolicy::shouldFlush: a strict comparison, and an
\* equality test.
DefaultFlushPolicy_shouldFlush_strict(progress, stripeSizeThreshold) ==
    progress.stripeSizeEstimate > stripeSizeThreshold

DefaultFlushPolicy_shouldFlush_equal(progress, stripeSizeThreshold) ==
    progress.stripeSizeEstimate = stripeSizeThreshold

DefaultFlushPolicy_shouldFlush_half(progress, stripeSizeThreshold) ==
    2 * progress.stripeSizeEstimate >= stripeSizeThreshold

\* bool shouldFlush(stripeProgress): stripeSizeEstimate >= stripeSizeThreshold_
DefaultFlushPolicy_shouldFlush(progress, stripeSizeThreshold) ==
    progress.stripeSizeEstimate >= stripeSizeThreshold

\* Variant of shouldFlush that keeps the assessment books: a snapshot that
\* has reached the cursor moves it on by a checkpoint.
DefaultFlushPolicy_shouldFlush_cursor_advance(cursor, progress, stripeSizeThreshold) ==
    IF progress.stripeSizeEstimate >= cursor
        THEN cursor + (stripeSizeThreshold \div 4)
        ELSE cursor

\* The assessment cursor that shouldFlush leaves behind: its body is the
\* return statement and assigns no member.
DefaultFlushPolicy_shouldFlush_cursor(cursor, progress, stripeSizeThreshold) ==
    cursor

\* The fixed increment of the assessment cursor: the stripe-size threshold
\* divided into four equal checkpoints (unsigned integer division).
getDictionaryAssessmentIncrement(stripeSizeThreshold) ==
    stripeSizeThreshold \div 4

\* The constructor: the cursor starts at the first checkpoint.
DefaultFlushPolicy_new(stripeSizeThreshold, dictionarySizeThreshold) ==
    [stripeSizeThreshold_ |-> stripeSizeThreshold,
     dictionarySizeThreshold_ |-> dictionarySizeThreshold,
     dictionaryAssessmentThreshold_ |->
         getDictionaryAssessmentIncrement(stripeSizeThreshold)]

\* Variant of the primitive form: the memory budget is tested before flushStripe.
DefaultFlushPolicy_shouldFlushDictionary_budgetFirst(flushStripe, overMemoryBudget, progress, usage, cursor, stripeSizeThreshold) ==
    IF overMemoryBudget
        THEN [decision |-> ABANDON_DICTIONARY, cursor |-> cursor]
    ELSE IF flushStripe
        THEN [decision |-> FLUSH_DICTIONARY, cursor |-> cursor]
    ELSE IF progress.stripeSizeEstimate >= cursor
        THEN [decision |-> EVALUATE_DICTIONARY,
              cursor |-> cursor + getDictionaryAssessmentIncrement(stripeSizeThreshold)]
    ELSE [decision |-> SKIP, cursor |-> cursor]

\* shouldFlushDictionary, primitive form (takes dictionaryMemoryUsage).
\* Returns the decision and the cursor the call leaves behind.
DefaultFlushPolicy_shouldFlushDictionary(flushStripe, overMemoryBudget, progress, usage, cursor, stripeSizeThreshold) ==
    IF flushStripe
        THEN [decision |-> FLUSH_DICTIONARY, cursor |-> cursor]
    ELSE IF overMemoryBudget
        THEN [decision |-> ABANDON_DICTIONARY, cursor |-> cursor]
    ELSE IF progress.stripeSizeEstimate >= cursor
        THEN [decision |-> EVALUATE_DICTIONARY,
              cursor |-> cursor + getDictionaryAssessmentIncrement(stripeSizeThreshold)]
    ELSE [decision |-> SKIP, cursor |-> cursor]

\* Variant of the context form: over budget as soon as the usage reaches the
\* dictionary threshold.
DefaultFlushPolicy_shouldFlushDictionaryContext_reached(flushStripe, overMemoryBudget, progress, contextUsage, cursor, stripeSizeThreshold, dictionarySizeThreshold) ==
    DefaultFlushPolicy_shouldFlushDictionary(
        flushStripe, contextUsage >= dictionarySizeThreshold, progress,
        contextUsage, cursor, stripeSizeThreshold)

\* shouldFlushDictionary, context form: derives overMemoryBudget from the
\* context's dictionary memory usage and delegates to the primitive form.
DefaultFlushPolicy_shouldFlushDictionaryContext(flushStripe, overMemoryBudget, progress, contextUsage, cursor, stripeSizeThreshold, dictionarySizeThreshold) ==
    DefaultFlushPolicy_shouldFlushDictionary(
        flushStripe, contextUsage > dictionarySizeThreshold, progress,
        contextUsage, cursor, stripeSizeThreshold)

\* Variant of onClose: the cursor is put back to the first checkpoint.
DefaultFlushPolicy_onClose_reset(cursor, stripeSizeThreshold) ==
    getDictionaryAssessmentIncrement(stripeSizeThreshold)

\* Variant of onClose: every call moves the cursor on by a checkpoint.
DefaultFlushPolicy_onClose_advance(cursor, stripeSizeThreshold) ==
    cursor + getDictionaryAssessmentIncrement(stripeSizeThreshold)

\* void onClose() override {}: the cursor it leaves behind.
DefaultFlushPolicy_onClose(cursor, stripeSizeThreshold) == cursor

\* ------------------------------------------------- RowsPerStripeFlushPolicy

\* Variant of the plan lookup: past the end of the plan it starts over at
\* the first entry.
RowsPerStripeFlushPolicy_target_wrap(rowsPerStripe, progress) ==
    rowsPerStripe[(progress.stripeIndex % Len(rowsPerStripe)) + 1]

\* The plan entry a stripe is held against: entry stripeIndex, the last entry
\* once the plan is used up.
RowsPerStripeFlushPolicy_target(rowsPerStripe, progress) ==
    IF progress.stripeIndex < Len(rowsPerStripe)
        THEN rowsPerStripe[progress.stripeIndex + 1]
        ELSE rowsPerStripe[Len(rowsPerStripe)]

\* Variant of RowsPerStripeFlushPolicy::shouldFlush: every stripe is held
\* against the first plan entry.
RowsPerStripeFlushPolicy_shouldFlush_first(progress, rowsPerStripe) ==
    progress.stripeRowCount >= rowsPerStripe[1]

\* bool shouldFlush(stripeProgress)
RowsPerStripeFlushPolicy_shouldFlush(progress, rowsPerStripe) ==
    progress.stripeRowCount >= RowsPerStripeFlushPolicy_target(rowsPerStripe, progress)

\* shouldFlushDictionary(...) { return FlushDecision::SKIP; }
RowsPerStripeFlushPolicy_shouldFlushDictionary(flushStripe, overMemoryBudget, progress, contextUsage) ==
    SKIP

\* ------------------------------------------------- RowThresholdFlushPolicy

\* Variant of RowThresholdFlushPolicy::shouldFlush: a strict comparison.
RowThresholdFlushPolicy_shouldFlush_strict(progress, rowCountThreshold) ==
    progress.stripeRowCount > rowCountThreshold

\* bool shouldFlush(stripeProgress): stripeRowCount >= rowCountThreshold_
RowThresholdFlushPolicy_shouldFlush(progress, rowCountThreshold) ==
    progress.stripeRowCount >= rowCountThreshold

\* Variant of RowThresholdFlushPolicy::shouldFlushDictionary: a closing
\* stripe flushes its dictionaries.
RowThresholdFlushPolicy_shouldFlushDictionary_flush(flushStripe, overMemoryBudget, progress, contextUsage) ==
    IF flushStripe THEN FLUSH_DICTIONARY ELSE SKIP

\* shouldFlushDictionary(...) { return FlushDecision::SKIP; }
RowThresholdFlushPolicy_shouldFlushDictionary(flushStripe, overMemoryBudget, progress, contextUsage) ==
    SKIP

\* ------------------------------------------------- LambdaFlushPolicy

\* Variant of LambdaFlushPolicy::shouldFlush: an empty stripe is never flushed.
LambdaFlushPolicy_shouldFlush_nonEmpty(progress, outcomes) ==
    [invoked |-> SubSeq(outcomes, 1, 1),
     flush |-> (outcomes[1] = "true" /\ progress.stripeRowCount > 0),
     fault |-> outcomes[1] = "throw"]

\* bool shouldFlush(/* unused */) { return lambda_(); }
\* outcomes[i] is what the i-th invocation of lambda_ made by this call does;
\* the result names the invocations made, the value returned and whether an
\* exception left the call.
LambdaFlushPolicy_shouldFlush(progress, outcomes) ==
    [invoked |-> SubSeq(outcomes, 1, 1),
     flush |-> outcomes[1] = "true",
     fault |-> outcomes[1] = "throw"]

\* shouldFlushDictionary(...) { return FlushDecision::SKIP; }
LambdaFlushPolicy_shouldFlushDictionary(flushStripe, overMemoryBudget, progress, contextUsage) ==
    SKIP

\* ------------------------------------------------- construction

\* Whether DefaultFlushPolicy's constructor accepts its arguments: both
\* thresholds strictly positive, a configuration fault otherwise.
DefaultFlushPolicy_accepts(stripeSizeThreshold, dictionarySizeThreshold) ==
    stripeSizeThreshold > 0 /\ dictionarySizeThreshold > 0

\* Whether RowsPerStripeFlushPolicy's constructor accepts its plan: an empty
\* sequence is a configuration fault.
RowsPerStripeFlushPolicy_accepts(rowsPerStripe) ==
    Len(rowsPerStripe) > 0

\* Whether RowThresholdFlushPolicy's constructor accepts its argument: the
\* member initialiser is all there is, the body is empty.
RowThresholdFlushPolicy_accepts(rowCountThreshold) ==
    TRUE

\* explicit RowsPerStripeFlushPolicy(std::vector<uint64_t> rowsPerStripe)
RowsPerStripeFlushPolicy_new(rowsPerStripe) ==
    [rowsPerStripe_ |-> rowsPerStripe]

\* explicit RowThresholdFlushPolicy(uint64_t rowCountThreshold)
\*     : rowCountThreshold_{rowCountThreshold} {}
RowThresholdFlushPolicy_new(rowCountThreshold) ==
    [rowCountThreshold_ |-> rowCountThreshold]

\* The row-count plans a RowsPerStripeFlushPolicy is constructed with.
Plans ==
    UNION {[1..n -> 0..MaxPlanEntry] : n \in 1..MaxPlanLen}

\* The record of an operation, before the operation fills in its outcome.
\* again: onClose directly follows another onClose.  progress, cursorBefore
\* and flushSeenBefore are the snapshot, the assessment cursor and flushSeen
\* as the operation found them.
CallRecord(op, again, progress, cursor, seen) ==
    [op |-> op, again |-> again, form |-> "none",
     flushStripe |-> FALSE, overMemoryBudget |-> FALSE, progress |-> progress,
     flush |-> FALSE, decision |-> "NONE", fault |-> FALSE, invoked |-> <<>>,
     cursorBefore |-> cursor, flushSeenBefore |-> seen]

NewCall(op) ==
    CallRecord(op, op = "onClose" /\ call.op = "onClose", stripeProgress,
               dictionaryAssessmentThreshold_, flushSeen)

InitWriter ==
    /\ stripeProgress = StripeProgress(0, 0, 0)
    /\ dictionaryMemoryUsage = 0
    /\ closed = FALSE
    /\ call = CallRecord("construct", FALSE, StripeProgress(0, 0, 0),
                         dictionaryAssessmentThreshold_, FALSE)
    /\ flushSeen = FALSE
    /\ fired = {}

\* The stripe-size thresholds a DefaultFlushPolicy is constructed with.
StripeSizeThresholds ==
    {SmallThreshold} \cup 4..MaxThreshold

InitDefault ==
    \E T \in {0} \cup StripeSizeThresholds, D \in 0..MaxDictThreshold :
        LET p == DefaultFlushPolicy_new(T, D) IN
        /\ DefaultFlushPolicy_accepts(T, D)
        /\ kind = "DefaultFlushPolicy"
        /\ stripeSizeThreshold_ = p.stripeSizeThreshold_
        /\ dictionarySizeThreshold_ = p.dictionarySizeThreshold_
        /\ dictionaryAssessmentThreshold_ = p.dictionaryAssessmentThreshold_
        /\ rowsPerStripe_ = <<>>
        /\ rowCountThreshold_ = 0

InitRowsPerStripe ==
    \E plan \in {<<>>} \cup Plans :
        /\ RowsPerStripeFlushPolicy_accepts(plan)
        /\ kind = "RowsPerStripeFlushPolicy"
        /\ rowsPerStripe_ = RowsPerStripeFlushPolicy_new(plan).rowsPerStripe_
        /\ stripeSizeThreshold_ = 0
        /\ dictionarySizeThreshold_ = 0
        /\ dictionaryAssessmentThreshold_ = 0
        /\ rowCountThreshold_ = 0

InitRowThreshold ==
    \E R \in 0..MaxRowThreshold :
        /\ RowThresholdFlushPolicy_accepts(R)
        /\ kind = "RowThresholdFlushPolicy"
        /\ rowCountThreshold_ = RowThresholdFlushPolicy_new(R).rowCountThreshold_
        /\ stripeSizeThreshold_ = 0
        /\ dictionarySizeThreshold_ = 0
        /\ dictionaryAssessmentThreshold_ = 0
        /\ rowsPerStripe_ = <<>>

InitLambda ==
    /\ kind = "LambdaFlushPolicy"
    /\ stripeSizeThreshold_ = 0
    /\ dictionarySizeThreshold_ = 0
    /\ dictionaryAssessmentThreshold_ = 0
    /\ rowsPerStripe_ = <<>>
    /\ rowCountThreshold_ = 0

Init ==
    /\ (InitDefault \/ InitRowsPerStripe \/ InitRowThreshold \/ InitLambda)
    /\ InitWriter

\* ------------------------------------------------- virtual dispatch

\* policy->shouldFlush(stripeProgress) on the constructed object.
Dispatch_shouldFlush(progress, outcomes) ==
    CASE kind = "DefaultFlushPolicy" ->
            [invoked |-> <<>>, fault |-> FALSE,
             flush |-> DefaultFlushPolicy_shouldFlush(progress, stripeSizeThreshold_)]
      [] kind = "RowsPerStripeFlushPolicy" ->
            [invoked |-> <<>>, fault |-> FALSE,
             flush |-> RowsPerStripeFlushPolicy_shouldFlush(progress, rowsPerStripe_)]
      [] kind = "RowThresholdFlushPolicy" ->
            [invoked |-> <<>>, fault |-> FALSE,
             flush |-> RowThresholdFlushPolicy_shouldFlush(progress, rowCountThreshold_)]
      [] kind = "LambdaFlushPolicy" ->
            LambdaFlushPolicy_shouldFlush(progress, outcomes)

\* The assessment cursor after policy->shouldFlush(stripeProgress): only
\* DefaultFlushPolicy has a member that is not const.
Dispatch_shouldFlush_cursor(progress) ==
    IF kind = "DefaultFlushPolicy"
        THEN DefaultFlushPolicy_shouldFlush_cursor(
                 dictionaryAssessmentThreshold_, progress, stripeSizeThreshold_)
        ELSE dictionaryAssessmentThreshold_

\* policy->shouldFlushDictionary(flushStripe, overMemoryBudget, stripeProgress, context)
Dispatch_shouldFlushDictionary(flushStripe, overMemoryBudget, progress, contextUsage) ==
    CASE kind = "DefaultFlushPolicy" ->
            DefaultFlushPolicy_shouldFlushDictionaryContext(
                flushStripe, overMemoryBudget, progress, contextUsage,
                dictionaryAssessmentThreshold_, stripeSizeThreshold_,
                dictionarySizeThreshold_)
      [] kind = "RowsPerStripeFlushPolicy" ->
            [decision |-> RowsPerStripeFlushPolicy_shouldFlushDictionary(
                              flushStripe, overMemoryBudget, progress, contextUsage),
             cursor |-> dictionaryAssessmentThreshold_]
      [] kind = "RowThresholdFlushPolicy" ->
            [decision |-> RowThresholdFlushPolicy_shouldFlushDictionary(
                              flushStripe, overMemoryBudget, progress, contextUsage),
             cursor |-> dictionaryAssessmentThreshold_]
      [] kind = "LambdaFlushPolicy" ->
            [decision |-> LambdaFlushPolicy_shouldFlushDictionary(
                              flushStripe, overMemoryBudget, progress, contextUsage),
             cursor |-> dictionaryAssessmentThreshold_]

\* policy->onClose(): every override is {}; only DefaultFlushPolicy has a
\* member that is not const.
Dispatch_onClose ==
    IF kind = "DefaultFlushPolicy"
        THEN DefaultFlushPolicy_onClose(dictionaryAssessmentThreshold_, stripeSizeThreshold_)
        ELSE dictionaryAssessmentThreshold_

\* ------------------------------------------------- operations

constVars == <<kind, stripeSizeThreshold_, dictionarySizeThreshold_, rowsPerStripe_, rowCountThreshold_>>

\* The history of the stripe after shouldFlushDictionary returned decision.
RecordDecision(decision) ==
    fired' = fired \cup {decision}

\* The writer asks whether to flush the stripe, with its current progress.
ShouldFlushWith(outcomes) ==
    LET r == Dispatch_shouldFlush(stripeProgress, outcomes) IN
    /\ ~closed
    /\ call' = [NewCall("shouldFlush")
                   EXCEPT !.flush = r.flush, !.fault = r.fault, !.invoked = r.invoked]
    /\ flushSeen' = (flushSeen \/ r.flush)
    /\ dictionaryAssessmentThreshold_' = Dispatch_shouldFlush_cursor(stripeProgress)
    /\ UNCHANGED <<constVars, writerVars, fired>>

\* What the invocations of lambda_ made during one call do, in order; a
\* policy that stores no callable invokes none.
LambdaRuns ==
    IF kind = "LambdaFlushPolicy"
        THEN [1..2 -> LambdaOutcomes]
        ELSE {<<"false", "false">>}

ShouldFlush ==
    \E outcomes \in LambdaRuns : ShouldFlushWith(outcomes)

\* DefaultFlushPolicy::shouldFlushDictionary(flushStripe, overMemoryBudget,
\* stripeProgress, dictionaryMemoryUsage) called on a DefaultFlushPolicy with
\* the context's dictionary memory usage.
ShouldFlushDictionaryPrimitiveWith(flushStripe, overMemoryBudget) ==
    LET r == DefaultFlushPolicy_shouldFlushDictionary(
                 flushStripe, overMemoryBudget, stripeProgress, dictionaryMemoryUsage,
                 dictionaryAssessmentThreshold_, stripeSizeThreshold_) IN
    /\ ~closed
    /\ kind = "DefaultFlushPolicy"
    /\ dictionaryAssessmentThreshold_' = r.cursor
    /\ call' = [NewCall("shouldFlushDictionary")
                   EXCEPT !.form = "primitive", !.flushStripe = flushStripe,
                          !.overMemoryBudget = overMemoryBudget, !.decision = r.decision]
    /\ RecordDecision(r.decision)
    /\ UNCHANGED <<constVars, writerVars, flushSeen>>

ShouldFlushDictionaryPrimitive ==
    \E flushStripe \in BOOLEAN, overMemoryBudget \in BOOLEAN :
        ShouldFlushDictionaryPrimitiveWith(flushStripe, overMemoryBudget)

\* The virtual shouldFlushDictionary(flushStripe, overMemoryBudget,
\* stripeProgress, context), with the writer's context.
ShouldFlushDictionaryWith(flushStripe, overMemoryBudget) ==
    LET r == Dispatch_shouldFlushDictionary(
                 flushStripe, overMemoryBudget, stripeProgress, dictionaryMemoryUsage) IN
    /\ ~closed
    /\ dictionaryAssessmentThreshold_' = r.cursor
    /\ call' = [NewCall("shouldFlushDictionary")
                   EXCEPT !.form = "context", !.flushStripe = flushStripe,
                          !.overMemoryBudget = overMemoryBudget, !.decision = r.decision]
    /\ RecordDecision(r.decision)
    /\ UNCHANGED <<constVars, writerVars, flushSeen>>

ShouldFlushDictionary ==
    \E flushStripe \in BOOLEAN, overMemoryBudget \in BOOLEAN :
        ShouldFlushDictionaryWith(flushStripe, overMemoryBudget)

\* onClose(), before or after the writer has closed.
OnClose ==
    /\ dictionaryAssessmentThreshold_' = Dispatch_onClose
    /\ call' = NewCall("onClose")
    /\ UNCHANGED <<constVars, writerVars, historyVars>>

\* The largest size the current stripe grows to.
SizeLimit ==
    IF kind = "DefaultFlushPolicy" THEN stripeSizeThreshold_ + Slack ELSE Slack

\* The most rows the current stripe grows to.
RowLimit ==
    IF kind = "DefaultFlushPolicy" THEN 1 ELSE MaxRows

\* The writer buffers more data: the stripe grows by size and rows, and the
\* dictionaries' memory usage becomes usage.
WriteWith(size, rows, usage) ==
    /\ ~closed
    /\ stripeProgress' = StripeProgress(stripeProgress.stripeIndex,
                                        stripeProgress.stripeRowCount + rows,
                                        stripeProgress.stripeSizeEstimate + size)
    /\ dictionaryMemoryUsage' = usage
    /\ call' = NewCall("write")
    /\ UNCHANGED <<policyVars, closed, historyVars>>

Write ==
    \E size \in 0..1, rows \in 0..1, usage \in 0..MaxUsage :
        /\ <<size, rows, usage>> # <<0, 0, dictionaryMemoryUsage>>
        /\ stripeProgress.stripeSizeEstimate + size <= SizeLimit
        /\ stripeProgress.stripeRowCount + rows <= RowLimit
        /\ WriteWith(size, rows, usage)

\* The writer flushes the stripe the policy asked it to flush and starts the
\* next one at zero.
FlushStripe ==
    /\ ~closed
    /\ flushSeen
    /\ stripeProgress.stripeIndex < MaxStripes
    /\ stripeProgress' = StripeProgress(stripeProgress.stripeIndex + 1, 0, 0)
    /\ dictionaryMemoryUsage' = 0
    /\ call' = NewCall("flushStripe")
    /\ flushSeen' = FALSE
    /\ fired' = {}
    /\ UNCHANGED <<policyVars, closed>>

\* WriterBase::close()
Close ==
    /\ ~closed
    /\ closed' = TRUE
    /\ call' = NewCall("close")
    /\ UNCHANGED <<policyVars, stripeProgress, dictionaryMemoryUsage, historyVars>>

Next ==
    \/ ShouldFlush
    \/ ShouldFlushDictionaryPrimitive
    \/ ShouldFlushDictionary
    \/ OnClose
    \/ Write
    \/ FlushStripe
    \/ Close

Spec == Init /\ [][Next]_vars

\* ------------------------------------------------- end-to-end scenario

\* One stripe under DefaultFlushPolicy(64 MiB, 16 MiB), sizes in MiB: the
\* stripe grows to 70 MiB, the dictionaries to 20 MiB by the time the stripe
\* holds 50 MiB.
Scenario ==
    [stripeSizeThreshold |-> 64, dictionarySizeThreshold |-> 16,
     finalSize |-> 70, finalUsage |-> 20, finalUsageBy |-> 50]

\* The dictionary memory usage the scenario passes through.
ScenarioUsages == {0, Scenario.dictionarySizeThreshold, Scenario.finalUsage}

InitScenario ==
    LET p == DefaultFlushPolicy_new(Scenario.stripeSizeThreshold,
                                    Scenario.dictionarySizeThreshold) IN
    /\ kind = "DefaultFlushPolicy"
    /\ stripeSizeThreshold_ = p.stripeSizeThreshold_
    /\ dictionarySizeThreshold_ = p.dictionarySizeThreshold_
    /\ dictionaryAssessmentThreshold_ = p.dictionaryAssessmentThreshold_
    /\ rowsPerStripe_ = <<>>
    /\ rowCountThreshold_ = 0
    /\ InitWriter

\* The stripe grows by one MiB; the dictionaries never shrink and have
\* reached their final usage when the stripe holds finalUsageBy.
ScenarioWrite ==
    \E rows \in 0..1, usage \in ScenarioUsages :
        /\ stripeProgress.stripeSizeEstimate < Scenario.finalSize
        /\ stripeProgress.stripeRowCount + rows <= RowLimit
        /\ usage >= dictionaryMemoryUsage
        /\ stripeProgress.stripeSizeEstimate + 1 >= Scenario.finalUsageBy
               => usage = Scenario.finalUsage
        /\ WriteWith(1, rows, usage)

\* The writer passes the policy's own shouldFlush as flushStripe and reports
\* overMemoryBudget when the dictionaries use more than the threshold.
ScenarioShouldFlushDictionary ==
    ShouldFlushDictionaryWith(
        DefaultFlushPolicy_shouldFlush(stripeProgress, stripeSizeThreshold_),
        dictionaryMemoryUsage > dictionarySizeThreshold_)

ScenarioShouldFlushDictionaryPrimitive ==
    ShouldFlushDictionaryPrimitiveWith(
        DefaultFlushPolicy_shouldFlush(stripeProgress, stripeSizeThreshold_),
        dictionaryMemoryUsage > dictionarySizeThreshold_)

NextScenario ==
    \/ ScenarioWrite
    \/ ShouldFlush
    \/ ScenarioShouldFlushDictionary
    \/ ScenarioShouldFlushDictionaryPrimitive

SpecScenario == InitScenario /\ [][NextScenario]_vars

\* ------------------------------------------------- properties

DecisionFor(flushStripe, overMemoryBudget, size, cursor) ==
    IF flushStripe THEN FLUSH_DICTIONARY
    ELSE IF overMemoryBudget THEN ABANDON_DICTIONARY
    ELSE IF size >= cursor THEN EVALUATE_DICTIONARY
    ELSE SKIP

\* C1: the primitive shouldFlushDictionary of the threshold policy returns
\* FLUSH_DICTIONARY if flushStripe, else ABANDON_DICTIONARY if
\* overMemoryBudget, else EVALUATE_DICTIONARY if the stripe size has reached
\* the assessment cursor, else SKIP, whatever the dictionary memory usage.
C1_PrimitiveDecision ==
    (call.op = "shouldFlushDictionary" /\ call.form = "primitive")
        => call.decision = DecisionFor(call.flushStripe, call.overMemoryBudget,
                                       call.progress.stripeSizeEstimate, call.cursorBefore)

\* C1 witness: flushStripe wins over overMemoryBudget and a crossed checkpoint.
C1_Witness ==
    /\ call.op = "shouldFlushDictionary" /\ call.form = "primitive"
    /\ call.flushStripe /\ call.overMemoryBudget
    /\ call.progress.stripeSizeEstimate >= call.cursorBefore
    /\ dictionaryMemoryUsage > 0
    /\ call.decision = FLUSH_DICTIONARY

\* C2: shouldFlush of the threshold policy returns true exactly when the
\* stripe size estimate has reached the stripe-size threshold, whatever the
\* row count and the earlier calls.
C2_ThresholdShouldFlush ==
    (kind = "DefaultFlushPolicy" /\ call.op = "shouldFlush")
        => (call.flush <=> call.progress.stripeSizeEstimate >= stripeSizeThreshold_)

\* C2 witness: a second stripe, with rows, exactly at the threshold.
C2_Witness ==
    /\ kind = "DefaultFlushPolicy" /\ call.op = "shouldFlush"
    /\ stripeProgress.stripeIndex > 0 /\ stripeProgress.stripeRowCount > 0
    /\ stripeProgress.stripeSizeEstimate = stripeSizeThreshold_
    /\ call.flush

WithinBudget(c) ==
    IF c.form = "primitive"
        THEN ~c.overMemoryBudget
        ELSE dictionaryMemoryUsage <= dictionarySizeThreshold_

\* C4: after a shouldFlushDictionary of the threshold policy returned
\* EVALUATE_DICTIONARY at some stripe size, a following call at the same size
\* with flushStripe and overMemoryBudget false does not return
\* EVALUATE_DICTIONARY again.
C4_NoRepeatedEvaluate ==
    [][(/\ kind = "DefaultFlushPolicy"
        /\ call.op = "shouldFlushDictionary"
        /\ call.decision = EVALUATE_DICTIONARY
        /\ call'.op = "shouldFlushDictionary"
        /\ ~call'.flushStripe
        /\ WithinBudget(call')
        /\ call'.progress = call.progress)
           => call'.decision # EVALUATE_DICTIONARY]_vars

\* The plan entry of the stripe that progress belongs to.
PlanEntry(progress) == rowsPerStripe_[progress.stripeIndex + 1]

ScenarioCheckpoints ==
    {k * getDictionaryAssessmentIncrement(Scenario.stripeSizeThreshold) : k \in 1..5}

C7_AlwaysSkip ==
    [][(/\ kind \in {"RowsPerStripeFlushPolicy", "RowThresholdFlushPolicy", "LambdaFlushPolicy"}
        /\ call'.op = "shouldFlushDictionary")
           => (call'.decision = SKIP /\ UNCHANGED policyVars)]_vars

\* C7 witness: SKIP although the stripe is flushing and over budget, after
\* earlier stripes.
C7_Witness ==
    /\ kind = "RowThresholdFlushPolicy" /\ call.op = "shouldFlushDictionary"
    /\ call.flushStripe /\ call.overMemoryBudget
    /\ stripeProgress.stripeIndex > 0
    /\ call.decision = SKIP

\* C8: shouldFlush of the predicate policy invokes the callable exactly once
\* and returns what that invocation returned, whatever the snapshot;
\* shouldFlushDictionary and onClose do not invoke it.
C8_LambdaOnce ==
    kind = "LambdaFlushPolicy"
        => /\ call.op = "shouldFlush"
                => /\ Len(call.invoked) = 1
                   /\ ~call.fault => (call.flush <=> call.invoked[1] = "true")
           /\ call.op \in {"shouldFlushDictionary", "onClose"}
                => call.invoked = <<>>

\* C8 witness: the callable asks to flush a stripe that is still empty.
C8_Witness ==
    /\ kind = "LambdaFlushPolicy" /\ call.op = "shouldFlush"
    /\ stripeProgress.stripeRowCount = 0 /\ stripeProgress.stripeSizeEstimate = 0
    /\ call.invoked = <<"true">>
    /\ call.flush

\* C9: shouldFlush of the row-threshold policy returns true exactly when the
\* stripe row count has reached the threshold, whatever the stripe size and
\* the earlier calls.
C9_RowThresholdShouldFlush ==
    (kind = "RowThresholdFlushPolicy" /\ call.op = "shouldFlush")
        => (call.flush <=> call.progress.stripeRowCount >= rowCountThreshold_)

\* C9 witness: exactly at a positive threshold, in a stripe of size zero.
C9_Witness ==
    /\ kind = "RowThresholdFlushPolicy" /\ call.op = "shouldFlush"
    /\ rowCountThreshold_ > 0
    /\ stripeProgress.stripeRowCount = rowCountThreshold_
    /\ stripeProgress.stripeSizeEstimate = 0
    /\ call.flush

\* C10: onClose never faults, before or after the writer has closed, and an
\* onClose that follows an onClose leaves the policy state as it found it.
C10_OnCloseIdempotent ==
    [][call'.op = "onClose"
           => /\ ~call'.fault
              /\ closed' = closed /\ stripeProgress' = stripeProgress
              /\ call.op = "onClose" => UNCHANGED policyVars]_vars

\* C10 witness: onClose called twice in a row after the writer has closed,
\* on a threshold policy whose cursor has advanced.
C10_Witness ==
    /\ kind = "DefaultFlushPolicy" /\ call.op = "onClose" /\ call.again
    /\ closed
    /\ dictionaryAssessmentThreshold_ > getDictionaryAssessmentIncrement(stripeSizeThreshold_)

\* Whether the last operation was one of the two decision calls.
DecisionCall ==
    call.op \in {"shouldFlush", "shouldFlushDictionary"}

\* C11: a policy that answers a decision call was constructed with strictly
\* positive thresholds (threshold and row-threshold policies) and a
\* non-empty plan (row-sequence policy); anything else was rejected at
\* construction.
C11_ValidatedConstruction ==
    DecisionCall
        => /\ kind = "DefaultFlushPolicy"
                => (stripeSizeThreshold_ > 0 /\ dictionarySizeThreshold_ > 0)
           /\ kind = "RowThresholdFlushPolicy" => rowCountThreshold_ > 0
           /\ kind = "RowsPerStripeFlushPolicy" => Len(rowsPerStripe_) > 0

C13_ContextFormDelegates ==
    [][(/\ kind = "DefaultFlushPolicy"
        /\ call'.op = "shouldFlushDictionary"
        /\ call'.form = "context")
           => LET decision == DecisionFor(call'.flushStripe,
                                          dictionaryMemoryUsage > dictionarySizeThreshold_,
                                          stripeProgress.stripeSizeEstimate,
                                          dictionaryAssessmentThreshold_) IN
              /\ call'.decision = decision
              /\ dictionaryAssessmentThreshold_' =
                     IF decision = EVALUATE_DICTIONARY
                         THEN dictionaryAssessmentThreshold_
                                  + getDictionaryAssessmentIncrement(stripeSizeThreshold_)
                         ELSE dictionaryAssessmentThreshold_
              /\ UNCHANGED <<constVars, writerVars>>]_vars

\* C13 witness: the usage equals the dictionary threshold, which is within
\* budget whatever the caller's flag says, and a checkpoint is evaluated.
C13_Witness ==
    /\ kind = "DefaultFlushPolicy"
    /\ call.op = "shouldFlushDictionary" /\ call.form = "context"
    /\ ~call.flushStripe /\ call.overMemoryBudget
    /\ dictionaryMemoryUsage = dictionarySizeThreshold_
    /\ call.decision = EVALUATE_DICTIONARY
    /\ dictionaryAssessmentThreshold_ > call.cursorBefore

\* C14: the assessment cursor of the threshold policy is back at its initial
\* value when a stripe starts: as long as no shouldFlushDictionary of the
\* current stripe has returned EVALUATE_DICTIONARY, the cursor is the one the
\* constructor set, so every stripe is first evaluated at the same size.
C14_CursorResetPerStripe ==
    (kind = "DefaultFlushPolicy" /\ EVALUATE_DICTIONARY \notin fired)
        => dictionaryAssessmentThreshold_
               = DefaultFlushPolicy_new(stripeSizeThreshold_,
                                        dictionarySizeThreshold_).dictionaryAssessmentThreshold_

\* C15: the thresholds never change; within a stripe the assessment cursor
\* never decreases and changes only in a shouldFlushDictionary that returns
\* EVALUATE_DICTIONARY, where it grows by exactly the increment; a
\* shouldFlushDictionary that returns SKIP, FLUSH_DICTIONARY or
\* ABANDON_DICTIONARY leaves the policy state unchanged.
C15_CursorMonotone ==
    [][/\ UNCHANGED constVars
       /\ call'.op # "flushStripe"
              => dictionaryAssessmentThreshold_' >= dictionaryAssessmentThreshold_
       /\ dictionaryAssessmentThreshold_' # dictionaryAssessmentThreshold_
              => (call'.op = "shouldFlushDictionary"
                  /\ call'.decision = EVALUATE_DICTIONARY)
       /\ (kind = "DefaultFlushPolicy" /\ call'.op = "shouldFlushDictionary")
              => IF call'.decision = EVALUATE_DICTIONARY
                     THEN dictionaryAssessmentThreshold_' =
                              dictionaryAssessmentThreshold_
                                  + getDictionaryAssessmentIncrement(stripeSizeThreshold_)
                     ELSE UNCHANGED policyVars]_vars

\* C15 witness: in a later stripe the primitive form evaluates and the
\* cursor has grown by a positive increment.
C15_Witness ==
    /\ kind = "DefaultFlushPolicy"
    /\ call.op = "shouldFlushDictionary" /\ call.form = "primitive"
    /\ stripeProgress.stripeIndex > 0
    /\ call.decision = EVALUATE_DICTIONARY
    /\ getDictionaryAssessmentIncrement(stripeSizeThreshold_) > 0
    /\ dictionaryAssessmentThreshold_
           = call.cursorBefore + getDictionaryAssessmentIncrement(stripeSizeThreshold_)

C17_FlushAbandonTerminal ==
    [][(/\ kind = "DefaultFlushPolicy"
        /\ call'.op = "shouldFlushDictionary"
        /\ fired \cap {FLUSH_DICTIONARY, ABANDON_DICTIONARY} # {})
           => call'.decision # EVALUATE_DICTIONARY]_vars

\* C18: under the threshold policy, a shouldFlushDictionary whose flushStripe
\* is the policy's own shouldFlush of the snapshot returns
\* EVALUATE_DICTIONARY only below the stripe-size threshold, and when the
\* call before it in the stripe returned EVALUATE_DICTIONARY too, only at a
\* stripe size larger than that call's.
C18_BoundedEvaluations ==
    [][(/\ kind = "DefaultFlushPolicy"
        /\ call'.op = "shouldFlushDictionary"
        /\ call'.flushStripe
               = DefaultFlushPolicy_shouldFlush(call'.progress, stripeSizeThreshold_)
        /\ call'.decision = EVALUATE_DICTIONARY)
           => /\ call'.progress.stripeSizeEstimate < stripeSizeThreshold_
              /\ (call.op = "shouldFlushDictionary"
                      /\ call.decision = EVALUATE_DICTIONARY)
                     => call'.progress.stripeSizeEstimate
                            > call.progress.stripeSizeEstimate]_vars

====
